---- MODULE Spec2Model ----
(***************************************************************************)
(* Model of FocusLens' client-side synchronisation core: the export store  *)
(* (task reconciliation engine), the project store (mutation queue) and    *)
(* the recording store (session controller).  Every store is a zustand     *)
(* store driven from one JavaScript thread: an action of this module is    *)
(* one run-to-completion piece of a handler, from one suspension point     *)
(* (await of a backend command or of a timer) to the next.  The texts the  *)
(* stores show to the user are written in English here.                    *)
(***************************************************************************)
EXTENDS Integers, Sequences, FiniteSets, Bags, TLC

VARIABLES
    exportStore,       \* zustand state of useExportStore
    exportPollSerial,  \* module-level counter of started poll loops
    pollLoops,         \* one entry per pollExportStatus call, indexed by its pollSerial
    exportCalls,       \* start_export / retry_export commands awaiting their reply
    backendTasks,      \* number of task identities the backend has minted
    exportIssued,      \* number of start_export / retry_export commands sent so far
    exportLast,        \* the last step of the export store: its kind and task identity
    retired,           \* identities replaced by a successful retry while current (history)
    projectStore,      \* zustand state of useProjectStore
    projectLoadSerial, \* module-level counter of loadProject calls
    loadCalls,         \* load_project commands awaiting their reply
    writes,            \* the links of the projectWriteQueue promise chain, in enqueue order
    flushes,           \* pending flushUpdates calls: the link each one awaits
    backendProjects,   \* the backend's manifest of every project
    backendLog,        \* the write commands in the order the backend received them (history)
    installedBy,       \* serial of the load whose reply filled the cache (history)
    projectLast,       \* the last step of the project store (history)
    projectOps,        \* number of operations of the project store called so far
    recordingStore,    \* zustand state of useRecordingStore
    recordingCalls,    \* recording commands awaiting their reply
    backendSessions,   \* number of session identities the backend has minted
    recordingIssued,   \* number of recording commands sent so far
    cleared,           \* sessions cleared by a local stop or a command failure (history)
    recordingLast,     \* the last step of the recording store (history)
    submit,            \* StudioPage's submitExport call: its position and captured values
    normalized,        \* the last call of normalizeInvokeError: its argument and result
    subscriptions      \* one entry per run of an event-listener effect

exportVars == <<exportStore, exportPollSerial, pollLoops, exportCalls,
                backendTasks, exportIssued, exportLast, retired>>

projectVars == <<projectStore, projectLoadSerial, loadCalls, writes, flushes,
                 backendProjects, backendLog, installedBy, projectLast, projectOps>>

recordingVars == <<recordingStore, recordingCalls, backendSessions, recordingIssued,
                   cleared, recordingLast>>

pageVars == <<submit>>

utilVars == <<normalized>>

eventVars == <<subscriptions>>

vars == <<exportVars, projectVars, recordingVars, pageVars, utilVars, eventVars>>

\* the variables a store's handlers never write: those of the other stores
exportOthers == <<projectVars, recordingVars, pageVars, utilVars, eventVars>>
projectOthers == <<exportVars, recordingVars, pageVars, utilVars, eventVars>>
recordingOthers == <<exportVars, projectVars, pageVars, utilVars, eventVars>>

(***************************************************************************)
(* Bounds of the model                                                     *)
(***************************************************************************)
\* start_export / retry_export commands sent in one behaviour
MaxExportCalls == 3
\* iteration ceiling of a poll loop in the model (the code's ceiling is 180)
MaxPollAttempts == 2
\* start_export / retry_export commands sent in one behaviour of the poll loops alone
MaxPollStarts == 2
\* loadProject calls in one behaviour of the load protocol alone
MaxLoads == 3
\* operations of the project store (loads, patches, flushes) called in one behaviour
MaxProjectOps == 4
\* loadProject calls in one behaviour of the write queue alone
MaxQueueLoads == 1
\* operations of the project store called in one behaviour of the submit action
MaxSubmitOps == 3
\* runs of an event-listener effect in one behaviour
MaxSubscriptions == 2
\* events delivered to one listener
MaxEvents == 2
\* recording commands sent in one behaviour
MaxRecordingCalls == 3

(***************************************************************************)
(* Values                                                                  *)
(***************************************************************************)
\* `taskId: null`; task identities are 1, 2, ...
NoTask == 0
Undefined == "undefined"

ExportStatus == {"queued", "running", "fallback", "success", "failed"}
TerminalStatus == {"success", "failed"}

\* payloads of export/progress notifications (without the task identity);
\* progress is in tenths: -15 is -1.5, 305 is 30.5, 1004 is 100.4
Push(status, tenths, detail) == [status |-> status, progress |-> tenths, detail |-> detail]
PushPayloads ==
    { Push("queued", -15, " "), Push("running", 305, "push detail"),
      Push("fallback", 1004, "push detail"), Push("success", 1004, "push detail"),
      Push("failed", 305, "push detail") }
\* lastError.message of a status snapshot (Undefined: no lastError)
SnapshotErrors == {Undefined, "encoder crashed"}
\* rejection payloads of a failed command (a blank string is not a message)
InvokeErrors == {"", "backend error"}

IsBlank(s) == s \in {"", " "}

detailByStatus(status) ==
    CASE status = "queued"   -> "export queued"
      [] status = "running"  -> "export running"
      [] status = "fallback" -> "software encoder fallback"
      [] status = "success"  -> "export done"
      [] OTHER               -> "export failed"

\* progressByStatus as an even scale: running at 25, fallback at 50
progressByStatusEven(status) ==
    CASE status = "queued"   -> 0
      [] status = "running"  -> 25
      [] status = "fallback" -> 50
      [] OTHER               -> 100

progressByStatus(status) ==
    CASE status = "queued"   -> 0
      [] status = "running"  -> 45
      [] status = "fallback" -> 62
      [] OTHER               -> 100

Max(a, b) == IF a >= b THEN a ELSE b
Min(a, b) == IF a <= b THEN a ELSE b

\* Math.round of a value given in tenths: the nearest integer, halves upwards
MathRound(tenths) == (tenths + 5) \div 10

\* ClampProgress without the clamp: Math.round(progress)
ClampProgressRoundOnly(tenths) ==
    MathRound(tenths)

\* Math.max(0, Math.min(100, Math.round(progress)))
ClampProgress(tenths) == Max(0, Min(100, MathRound(tenths)))

\* NormalizedMessage without the blank test: the payload is the message as it is
NormalizedMessageRaw(error, fallbackMessage) ==
    error

\* message of normalizeInvokeError(error, code, fallbackMessage) for a string payload
NormalizedMessage(error, fallbackMessage) ==
    IF ~IsBlank(error) THEN error ELSE fallbackMessage

\* the record kept in exportLast
Event(op, task) == [op |-> op, task |-> task]

(***************************************************************************)
(* Export store                                                            *)
(***************************************************************************)
ExportInit ==
    /\ exportStore = [taskId |-> NoTask, status |-> "queued", progress |-> 0,
                      detail |-> "waiting for export", error |-> Undefined]
    /\ exportPollSerial = 0
    /\ pollLoops = <<>>
    /\ exportCalls = EmptyBag
    /\ backendTasks = 0
    /\ exportIssued = 0
    /\ exportLast = Event("init", NoTask)
    /\ retired = {}

\* PollStale without the serial comparison
PollStaleIdentityOnly(k) ==
    exportStore.taskId # pollLoops[k].taskId

\* PollStale without the identity comparison
PollStaleSerialOnly(k) ==
    k # exportPollSerial

\* get().taskId !== taskId || pollSerial !== exportPollSerial
PollStale(k) ==
    \/ exportStore.taskId # pollLoops[k].taskId
    \/ k # exportPollSerial

\* `const pollSerial = ++exportPollSerial` and the loop's first sleep
StartPoll(task) ==
    /\ exportPollSerial' = exportPollSerial + 1
    /\ pollLoops' = Append(pollLoops, [taskId |-> task, attempt |-> 0, pc |-> "sleep"])

\* the loop's function returns: its locals are gone
Return(k) ==
    [pollLoops EXCEPT ![k] = [@ EXCEPT !.attempt = 0, !.pc = "done"]]

\* NextAttempt without the ceiling: `for (;;)`
NextAttemptForever(k) ==
    [pollLoops EXCEPT ![k] = [@ EXCEPT !.pc = "sleep"]]

\* `attempt += 1` and the loop condition `attempt < 180`
NextAttempt(k) ==
    LET n == pollLoops[k].attempt + 1 IN
    IF n < MaxPollAttempts
    THEN [pollLoops EXCEPT ![k] = [@ EXCEPT !.attempt = n, !.pc = "sleep"]]
    ELSE Return(k)

\* the state written by a poll tick for a snapshot
PollApplied(store, snapStatus, snapError) ==
    LET statusProgress == progressByStatus(snapStatus)
        progress == IF snapStatus \in {"running", "fallback"}
                    THEN Max(store.progress, statusProgress)
                    ELSE statusProgress
        detail == IF snapStatus = "failed"
                  THEN (IF snapError # Undefined THEN snapError
                                                 ELSE detailByStatus(snapStatus))
                  ELSE IF store.status = snapStatus /\ ~IsBlank(store.detail)
                       THEN store.detail
                       ELSE detailByStatus(snapStatus)
        error == IF snapStatus = "failed"
                 THEN (IF snapError # Undefined THEN snapError ELSE "export failed")
                 ELSE Undefined
    IN [store EXCEPT !.status = snapStatus, !.progress = progress,
                     !.detail = detail, !.error = error]

\* the state written by setProgress when the notification is admitted
PushApplied(store, task, status, tenths, detail) ==
    [taskId   |-> IF store.taskId # NoTask THEN store.taskId ELSE task,
     status   |-> status,
     progress |-> ClampProgress(tenths),
     detail   |-> detail,
     error    |-> IF status = "failed" THEN detail ELSE Undefined]

\* setProgress's early return: `currentTaskId && taskId !== currentTaskId`
PushRejected(store, task) ==
    store.taskId # NoTask /\ task # store.taskId

\* a command awaiting its reply; exportCalls is the bag of them
Call(cmd, arg) == [cmd |-> cmd, arg |-> arg]

\* what startExport does to the export store's variables up to its await
StartExportSent ==
    /\ exportIssued < MaxExportCalls
    /\ exportIssued' = exportIssued + 1
    /\ exportCalls' = exportCalls (+) SetToBag({Call("start_export", NoTask)})
    /\ exportLast' = Event("start_call", NoTask)
    /\ UNCHANGED <<exportStore, exportPollSerial, pollLoops, backendTasks, retired>>

\* startExport up to its await: start_export is sent
StartExportCall ==
    /\ StartExportSent
    /\ UNCHANGED exportOthers

\* startExport after its await, try branch: the backend minted a task identity
StartExportOk(c) ==
    /\ BagIn(c, exportCalls) /\ c.cmd = "start_export"
    /\ exportCalls' = exportCalls (-) SetToBag({c})
    /\ backendTasks' = backendTasks + 1
    /\ exportStore' = [taskId |-> backendTasks + 1, status |-> "queued", progress |-> 0,
                       detail |-> "export queue", error |-> Undefined]
    /\ StartPoll(backendTasks + 1)
    /\ exportLast' = Event("start_ok", backendTasks + 1)
    /\ UNCHANGED <<exportIssued, retired, exportOthers>>

\* startExport after its await, catch branch
StartExportFail(c, error) ==
    /\ BagIn(c, exportCalls) /\ c.cmd = "start_export"
    /\ exportCalls' = exportCalls (-) SetToBag({c})
    /\ exportStore' = [taskId |-> NoTask, status |-> "failed", progress |-> 100,
                       detail |-> "start export failed",
                       error |-> NormalizedMessage(error, "start export failed")]
    /\ exportLast' = Event("start_fail", NoTask)
    /\ UNCHANGED <<exportPollSerial, pollLoops, backendTasks, exportIssued, retired,
                   exportOthers>>

\* HasTask without the test: a retry goes on with no current identity
HasTaskAlways(store) ==
    TRUE

\* `const { taskId } = get(); if (!taskId) { return; }`
HasTask(store) ==
    store.taskId # NoTask

\* retryExport's early return: `if (!taskId) return`
RetryExportNoTask ==
    /\ ~HasTask(exportStore)
    /\ exportLast' = Event("retry_noop", NoTask)
    /\ UNCHANGED <<exportStore, exportPollSerial, pollLoops, exportCalls, backendTasks,
                   exportIssued, retired, exportOthers>>

\* retryExport up to its await: retry_export is sent for the current identity
RetryExportCall ==
    /\ HasTask(exportStore)
    /\ exportIssued < MaxExportCalls
    /\ exportIssued' = exportIssued + 1
    /\ exportCalls' = exportCalls (+) SetToBag({Call("retry_export", exportStore.taskId)})
    /\ exportLast' = Event("retry_call", exportStore.taskId)
    /\ UNCHANGED <<exportStore, exportPollSerial, pollLoops, backendTasks, retired,
                   exportOthers>>

\* retryExport after its await, try branch: the backend minted a new identity
RetryExportOk(c) ==
    /\ BagIn(c, exportCalls) /\ c.cmd = "retry_export"
    /\ exportCalls' = exportCalls (-) SetToBag({c})
    /\ backendTasks' = backendTasks + 1
    /\ exportStore' = [taskId |-> backendTasks + 1, status |-> "queued", progress |-> 0,
                       detail |-> "retry task created", error |-> Undefined]
    /\ StartPoll(backendTasks + 1)
    /\ exportLast' = Event("retry_ok", c.arg)
    /\ retired' = IF exportStore.taskId = c.arg THEN retired \cup {c.arg} ELSE retired
    /\ UNCHANGED <<exportIssued, exportOthers>>

\* retryExport after its await, catch branch: taskId is set to the captured one
RetryExportFail(c, error) ==
    /\ BagIn(c, exportCalls) /\ c.cmd = "retry_export"
    /\ exportCalls' = exportCalls (-) SetToBag({c})
    /\ exportStore' = [taskId |-> c.arg, status |-> "failed", progress |-> 100,
                       detail |-> "retry export failed",
                       error |-> NormalizedMessage(error, "retry export failed")]
    /\ exportLast' = Event("retry_fail", c.arg)
    /\ UNCHANGED <<exportPollSerial, pollLoops, backendTasks, exportIssued, retired,
                   exportOthers>>

\* a poll loop wakes from its sleep: it returns when stale, else fetches the status
PollTick(k) ==
    /\ k \in DOMAIN pollLoops /\ pollLoops[k].pc = "sleep"
    /\ IF PollStale(k)
       THEN /\ pollLoops' = Return(k)
            /\ exportLast' = Event("poll_exit", pollLoops[k].taskId)
       ELSE /\ pollLoops' = [pollLoops EXCEPT ![k].pc = "fetch"]
            /\ exportLast' = Event("poll_fetch", pollLoops[k].taskId)
    /\ UNCHANGED <<exportStore, exportPollSerial, exportCalls, backendTasks,
                   exportIssued, retired, exportOthers>>

\* get_export_task_status replies with a snapshot
PollReply(k, snapStatus, snapError) ==
    /\ k \in DOMAIN pollLoops /\ pollLoops[k].pc = "fetch"
    /\ IF PollStale(k)
       THEN /\ pollLoops' = Return(k)
            /\ exportLast' = Event("poll_drop", pollLoops[k].taskId)
            /\ UNCHANGED exportStore
       ELSE /\ exportStore' = PollApplied(exportStore, snapStatus, snapError)
            /\ pollLoops' = IF snapStatus \in TerminalStatus
                            THEN Return(k)
                            ELSE NextAttempt(k)
            /\ exportLast' = Event("poll_apply", pollLoops[k].taskId)
    /\ UNCHANGED <<exportPollSerial, exportCalls, backendTasks, exportIssued, retired,
                   exportOthers>>

\* PollFetchFail that reports the failure and ends the loop
PollFetchFailStops(k) ==
    /\ k \in DOMAIN pollLoops /\ pollLoops[k].pc = "fetch"
    /\ exportStore' = [exportStore EXCEPT !.status = "failed", !.progress = 100,
                                          !.detail = "export failed",
                                          !.error = "export failed"]
    /\ pollLoops' = Return(k)
    /\ exportLast' = Event("poll_error", pollLoops[k].taskId)
    /\ UNCHANGED <<exportPollSerial, exportCalls, backendTasks,
                   exportIssued, retired, exportOthers>>

\* get_export_task_status fails: the catch block swallows it
PollFetchFail(k) ==
    /\ k \in DOMAIN pollLoops /\ pollLoops[k].pc = "fetch"
    /\ pollLoops' = NextAttempt(k)
    /\ exportLast' = Event("poll_error", pollLoops[k].taskId)
    /\ UNCHANGED <<exportStore, exportPollSerial, exportCalls, backendTasks,
                   exportIssued, retired, exportOthers>>

\* an export/progress notification reaches setProgress (App's listener)
SetProgress(task, status, tenths, detail) ==
    /\ IF PushRejected(exportStore, task)
       THEN /\ UNCHANGED exportStore
            /\ exportLast' = Event("push_drop", task)
       ELSE /\ exportStore' = PushApplied(exportStore, task, status, tenths, detail)
            /\ exportLast' = Event(IF exportStore.taskId = NoTask THEN "push_adopt"
                                                                 ELSE "push_apply", task)
    /\ UNCHANGED <<exportPollSerial, pollLoops, exportCalls, backendTasks,
                   exportIssued, retired, exportOthers>>

\* the steps of poll loop k that its environment owes it: the timer fires, the
\* status fetch replies or fails
PollSteps(k) ==
    \/ PollTick(k)
    \/ \E s \in ExportStatus, e \in SnapshotErrors :
          (s = "failed" \/ e = Undefined) /\ PollReply(k, s, e)
    \/ PollFetchFail(k)

ExportNext ==
    \/ StartExportCall
    \/ \E c \in BagToSet(exportCalls) : StartExportOk(c)
    \/ \E c \in BagToSet(exportCalls), e \in InvokeErrors : StartExportFail(c, e)
    \/ RetryExportNoTask
    \/ RetryExportCall
    \/ \E c \in BagToSet(exportCalls) : RetryExportOk(c)
    \/ \E c \in BagToSet(exportCalls), e \in InvokeErrors : RetryExportFail(c, e)
    \/ \E k \in DOMAIN pollLoops : PollTick(k)
    \/ \E k \in DOMAIN pollLoops, s \in ExportStatus, e \in SnapshotErrors :
          (s = "failed" \/ e = Undefined) /\ PollReply(k, s, e)
    \/ \E k \in DOMAIN pollLoops : PollFetchFail(k)
    \/ \E t \in 1..backendTasks, n \in PushPayloads :
          SetProgress(t, n.status, n.progress, n.detail)

\* the poll loops alone: the commands that start them and their own steps
PollNext ==
    \/ exportIssued < MaxPollStarts /\ StartExportCall
    \/ \E c \in BagToSet(exportCalls) : StartExportOk(c)
    \/ \E c \in BagToSet(exportCalls), e \in InvokeErrors : StartExportFail(c, e)
    \/ exportIssued < MaxPollStarts /\ RetryExportCall
    \/ \E c \in BagToSet(exportCalls) : RetryExportOk(c)
    \/ \E c \in BagToSet(exportCalls), e \in InvokeErrors : RetryExportFail(c, e)
    \/ \E k \in DOMAIN pollLoops : PollSteps(k)

(***************************************************************************)
(* Project store                                                           *)
(***************************************************************************)
Projects == {"A", "B"}
NoProject == "null"
\* `manifest: null`
NoManifest == [project |-> NoProject]

\* the part of a ProjectManifest the model keeps; `project` records whose manifest
\* it is (the manifest itself carries no identity)
DefaultManifest(p) ==
    [project      |-> p,
     title        |-> "untitled",
     timeline     |-> [trimStartMs |-> 0, aspectRatio |-> "16:9"],
     cameraMotion |-> [enabled |-> TRUE, intensity |-> "medium"]]

\* Partial<TimelineConfig> and Partial<CameraMotionProfile> values the UI sends
TimelinePatches == { [trimStartMs |-> 1] }
CameraPatches == { [enabled |-> FALSE] }

\* Spread that keeps the patch alone: { ...patch }
SpreadPatchOnly(sub, patch) ==
    patch

\* { ...sub, ...patch }
Spread(sub, patch) ==
    [f \in DOMAIN sub |-> IF f \in DOMAIN patch THEN patch[f] ELSE sub[f]]

\* the manifest with a patch merged into one sub-object
Merged(manifest, kind, patch) ==
    IF kind = "update_timeline"
    THEN [manifest EXCEPT !.timeline = Spread(manifest.timeline, patch)]
    ELSE [manifest EXCEPT !.cameraMotion = Spread(manifest.cameraMotion, patch)]

Settled == {"ok", "failed"}

ProjectEvent(op, n) == [op |-> op, n |-> n]

ProjectInit ==
    /\ projectStore = [currentProjectId |-> NoProject, manifest |-> NoManifest]
    /\ projectLoadSerial = 0
    /\ loadCalls = {}
    /\ writes = <<>>
    /\ flushes = {}
    /\ backendProjects = [p \in Projects |-> DefaultManifest(p)]
    /\ backendLog = <<>>
    /\ installedBy = 0
    /\ projectLast = ProjectEvent("init", 0)
    /\ projectOps = 0

\* CanRun without `.catch(() => undefined)`: a rejected link halts the chain
CanRunAfterOk(ws, i) ==
    IF i = 1 THEN TRUE ELSE ws[i - 1].st = "ok"

\* CanRun without the chaining: every link's body starts when it is created
CanRunAlways(ws, i) ==
    TRUE

\* link i of the chain runs its body once link i-1 has settled, whatever its outcome
\* (`projectWriteQueue.catch(() => undefined).then(...)`)
CanRun(ws, i) ==
    IF i = 1 THEN TRUE ELSE ws[i - 1].st \in Settled

\* the links whose body starts now: their write command is sent
Starting(ws) ==
    {i \in DOMAIN ws : ws[i].st = "queued" /\ CanRun(ws, i)}

RECURSIVE AppendAll(_, _)
AppendAll(log, is) ==
    IF is = {} THEN log
    ELSE LET i == CHOOSE x \in is : \A y \in is : x <= y
         IN AppendAll(Append(log, i), is \ {i})

\* the chain after the bodies that can start have started
Run(ws) ==
    [i \in DOMAIN ws |-> IF i \in Starting(ws) THEN [ws[i] EXCEPT !.st = "inflight"]
                                                ELSE ws[i]]

\* QueueSettled without the await: flushUpdates returns at once
QueueSettledAlways(ws, tail) ==
    TRUE

\* `await projectWriteQueue` continues once the awaited link has settled
QueueSettled(ws, tail) ==
    IF tail = 0 THEN TRUE ELSE ws[tail].st \in Settled

\* what loadProject does to the project store's variables up to its await
LoadProjectSent(p) ==
    /\ projectOps' = projectOps + 1
    /\ projectLoadSerial' = projectLoadSerial + 1
    /\ projectStore' = [currentProjectId |-> p, manifest |-> NoManifest]
    /\ loadCalls' = loadCalls \cup
          {[loadSerial |-> projectLoadSerial + 1, projectId |-> p, st |-> "sent",
            reply |-> NoManifest]}
    /\ installedBy' = 0
    /\ projectLast' = ProjectEvent("load_call", projectLoadSerial + 1)
    /\ UNCHANGED <<writes, flushes, backendProjects, backendLog>>

\* loadProject up to its await
LoadProject(p) ==
    /\ LoadProjectSent(p)
    /\ UNCHANGED projectOthers

\* the backend reads the project for a load_project command, or fails to
BackendLoad(c, ok) ==
    /\ c \in loadCalls /\ c.st = "sent"
    /\ loadCalls' = (loadCalls \ {c}) \cup
          {IF ok THEN [c EXCEPT !.st = "served", !.reply = backendProjects[c.projectId]]
                 ELSE [c EXCEPT !.st = "failed"]}
    /\ projectLast' = ProjectEvent("load_served", c.loadSerial)
    /\ UNCHANGED <<projectStore, projectLoadSerial, writes, flushes, backendProjects,
                   backendLog, installedBy, projectOps, projectOthers>>

\* LoadStale without any comparison: every reply is installed
LoadStaleNever(c) ==
    FALSE

\* LoadStale without the serial: only the project identity is compared
LoadStaleProjectOnly(c) ==
    projectStore.currentProjectId # c.projectId

\* the guard after loadProject's await
LoadStale(c) ==
    \/ c.loadSerial # projectLoadSerial
    \/ projectStore.currentProjectId # c.projectId

\* what loadProject does to the project store's variables after its await
LoadProjectReplied(c) ==
    /\ c \in loadCalls /\ c.st = "served"
    /\ loadCalls' = loadCalls \ {c}
    /\ IF LoadStale(c)
       THEN /\ UNCHANGED <<projectStore, installedBy>>
            /\ projectLast' = ProjectEvent("load_drop", c.loadSerial)
       ELSE /\ projectStore' = [currentProjectId |-> c.projectId, manifest |-> c.reply]
            /\ installedBy' = c.loadSerial
            /\ projectLast' = ProjectEvent("load_install", c.loadSerial)
    /\ UNCHANGED <<projectLoadSerial, writes, flushes, backendProjects, backendLog,
                   projectOps>>

\* loadProject after its await: the manifest arrives
LoadReply(c) ==
    /\ LoadProjectReplied(c)
    /\ UNCHANGED projectOthers

\* what a rejected load_project does to the project store's variables
LoadProjectThrown(c) ==
    /\ c \in loadCalls /\ c.st = "failed"
    /\ loadCalls' = loadCalls \ {c}
    /\ projectLast' = ProjectEvent("load_fail", c.loadSerial)
    /\ UNCHANGED <<projectStore, projectLoadSerial, writes, flushes, backendProjects,
                   backendLog, installedBy, projectOps>>

\* loadProject's await throws: the rejection goes to the caller
LoadFail(c) ==
    /\ LoadProjectThrown(c)
    /\ UNCHANGED projectOthers

\* HasProject without the test: a patch goes on with no current project
HasProjectAlways(store) ==
    TRUE

\* `const { currentProjectId } = get(); if (!currentProjectId) { return; }`
HasProject(store) ==
    store.currentProjectId # NoProject

\* updateTimeline / updateCameraMotion with no current project: early return
PatchNoProject ==
    /\ ~HasProject(projectStore)
    /\ projectLast' = ProjectEvent("patch_noop", 0)
    /\ UNCHANGED <<projectStore, projectLoadSerial, loadCalls, writes, flushes,
                   backendProjects, backendLog, installedBy, projectOps, projectOthers>>

\* updateTimeline / updateCameraMotion up to `await projectWriteQueue`: a link is
\* appended to the chain; its body starts at once when the chain is idle
Enqueue(kind, patch) ==
    /\ projectOps' = projectOps + 1
    /\ HasProject(projectStore)
    /\ LET ws == Append(writes, [kind |-> kind, target |-> projectStore.currentProjectId,
                                 patch |-> patch, st |-> "queued"])
       IN /\ writes' = Run(ws)
          /\ backendLog' = AppendAll(backendLog, Starting(ws))
    /\ projectLast' = ProjectEvent("patch_call", Len(writes) + 1)
    /\ UNCHANGED <<projectStore, projectLoadSerial, loadCalls, flushes,
                   backendProjects, installedBy, projectOthers>>

UpdateTimeline(patch) == Enqueue("update_timeline", patch)

UpdateCameraMotion(patch) == Enqueue("update_camera_motion", patch)

\* WriteApplied without the comparison of the target with the current project
WriteAppliedAnyProject(store, w) ==
    IF store.manifest = NoManifest THEN store
    ELSE [store EXCEPT !.manifest = Merged(@, w.kind, w.patch)]

\* the store after the reply of write w: the two early returns, then the merge
WriteApplied(store, w) ==
    IF store.currentProjectId # w.target THEN store
    ELSE IF store.manifest = NoManifest THEN store
    ELSE [store EXCEPT !.manifest = Merged(@, w.kind, w.patch)]

\* the body of link i after its await: the backend applied the patch and replied;
\* the patch is merged into the cache when the target is still current
WriteOk(i) ==
    /\ i \in DOMAIN writes /\ writes[i].st = "inflight"
    /\ LET w == writes[i]
           ws == [writes EXCEPT ![i].st = "ok"]
       IN /\ backendProjects' = [backendProjects EXCEPT
                                    ![w.target] = Merged(@, w.kind, w.patch)]
          /\ projectStore' = WriteApplied(projectStore, w)
          /\ writes' = Run(ws)
          /\ backendLog' = AppendAll(backendLog, Starting(ws))
    /\ projectLast' = ProjectEvent("write_ok", i)
    /\ UNCHANGED <<projectLoadSerial, loadCalls, flushes, installedBy, projectOps, projectOthers>>

\* WriteFail that merges the rejected patch into the cache all the same
WriteFailMerges(i) ==
    /\ i \in DOMAIN writes /\ writes[i].st = "inflight"
    /\ LET ws == [writes EXCEPT ![i].st = "failed"]
       IN /\ writes' = Run(ws)
          /\ backendLog' = AppendAll(backendLog, Starting(ws))
    /\ projectStore' = WriteApplied(projectStore, writes[i])
    /\ projectLast' = ProjectEvent("write_fail", i)
    /\ UNCHANGED <<projectLoadSerial, loadCalls, flushes,
                   backendProjects, installedBy, projectOps, projectOthers>>

\* the body of link i: its write command fails, the link rejects
WriteFail(i) ==
    /\ i \in DOMAIN writes /\ writes[i].st = "inflight"
    /\ LET ws == [writes EXCEPT ![i].st = "failed"]
       IN /\ writes' = Run(ws)
          /\ backendLog' = AppendAll(backendLog, Starting(ws))
    /\ projectLast' = ProjectEvent("write_fail", i)
    /\ UNCHANGED <<projectStore, projectLoadSerial, loadCalls, flushes,
                   backendProjects, installedBy, projectOps, projectOthers>>

\* flushUpdates up to its await: it awaits the chain's last link
FlushCall ==
    /\ projectOps' = projectOps + 1
    /\ Len(writes) \notin flushes
    /\ flushes' = flushes \cup {Len(writes)}
    /\ projectLast' = ProjectEvent("flush_call", Len(writes))
    /\ UNCHANGED <<projectStore, projectLoadSerial, loadCalls, writes, backendProjects,
                   backendLog, installedBy, projectOthers>>

\* flushUpdates after its await: it resolves, or rejects when the awaited link rejected
FlushDone(tail) ==
    /\ tail \in flushes
    /\ QueueSettled(writes, tail)
    /\ flushes' = flushes \ {tail}
    /\ projectLast' = ProjectEvent(IF tail > 0 /\ writes[tail].st = "failed"
                                   THEN "flush_rejected" ELSE "flush_resolved", tail)
    /\ UNCHANGED <<projectStore, projectLoadSerial, loadCalls, writes, backendProjects,
                   backendLog, installedBy, projectOps, projectOthers>>

\* the load protocol alone
LoadsNext ==
    \/ projectLoadSerial < MaxLoads /\ \E p \in Projects : LoadProject(p)
    \/ \E c \in loadCalls, ok \in BOOLEAN : BackendLoad(c, ok)
    \/ \E c \in loadCalls : LoadReply(c)
    \/ \E c \in loadCalls : LoadFail(c)

\* the write queue alone: loads, patches and the replies to their commands
QueueNext ==
    \/ projectLoadSerial < MaxQueueLoads /\ projectOps < MaxProjectOps
          /\ \E p \in Projects : LoadProject(p)
    \/ \E c \in loadCalls, ok \in BOOLEAN : BackendLoad(c, ok)
    \/ \E c \in loadCalls : LoadReply(c)
    \/ \E c \in loadCalls : LoadFail(c)
    \/ projectOps < MaxProjectOps /\ \E patch \in TimelinePatches : UpdateTimeline(patch)
    \/ projectOps < MaxProjectOps /\ \E patch \in CameraPatches : UpdateCameraMotion(patch)
    \/ \E i \in DOMAIN writes : WriteOk(i)
    \/ \E i \in DOMAIN writes : WriteFail(i)

\* the whole project store
ProjectNext ==
    \/ projectOps < MaxProjectOps /\ \E p \in Projects : LoadProject(p)
    \/ \E c \in loadCalls, ok \in BOOLEAN : BackendLoad(c, ok)
    \/ \E c \in loadCalls : LoadReply(c)
    \/ \E c \in loadCalls : LoadFail(c)
    \/ PatchNoProject
    \/ projectOps < MaxProjectOps /\ \E patch \in TimelinePatches : UpdateTimeline(patch)
    \/ projectOps < MaxProjectOps /\ \E patch \in CameraPatches : UpdateCameraMotion(patch)
    \/ \E i \in DOMAIN writes : WriteOk(i)
    \/ \E i \in DOMAIN writes : WriteFail(i)
    \/ projectOps < MaxProjectOps /\ FlushCall
    \/ \E tail \in flushes : FlushDone(tail)

(***************************************************************************)
(* Recording store                                                         *)
(***************************************************************************)
\* `sessionId: null`; session identities are 1, 2, ...
NoSession == 0
\* `projectId: null`; stop_recording of session s returns the project made from it,
\* which the model names s as well
NoRecording == 0

RecordingRuntimeStatus == {"idle", "recording", "paused", "stopped", "error"}
ActiveStatus == {"recording", "paused"}

\* profile.captureMode
CaptureModes == {"fullscreen", "window"}

\* `error` absent
NoError == [code |-> Undefined, message |-> Undefined]

\* JavaScript values a rejected command can carry, each with its typeof; an object
\* lists the four properties the normalisation reads and whether it is an Error
JsUndefined == [type |-> "undefined"]
JsNull == [type |-> "null"]
JsNumber == [type |-> "number"]
JsString(s) == [type |-> "string", value |-> s]
JsObject(isError, code, message, suggestion, error) ==
    [type |-> "object", isError |-> isError, code |-> code, message |-> message,
     suggestion |-> suggestion, error |-> error]

\* typeof value === "string" && value.trim().length > 0
IsMessage(value) == value.type = "string" /\ ~IsBlank(value.value)

\* asRecord(value): the value when it is a non-null object, else null
asRecord(value) == IF value.type = "object" THEN value ELSE JsNull

\* parseFromRecord that never reads the record's code
parseFromRecordFallbackCode(value, fallbackCode, fallbackMessage) ==
    IF IsMessage(value.message)
    THEN [code       |-> fallbackCode,
          message    |-> value.message.value,
          suggestion |-> IF value.suggestion.type = "string"
                         THEN value.suggestion.value ELSE Undefined]
    ELSE JsNull

\* parseFromRecord(value, fallbackCode, fallbackMessage): an AppError, or null when
\* the record has no non-blank string message
parseFromRecord(value, fallbackCode, fallbackMessage) ==
    IF IsMessage(value.message)
    THEN [code       |-> IF value.code.type = "string" THEN value.code.value
                                                       ELSE fallbackCode,
          message    |-> value.message.value,
          suggestion |-> IF value.suggestion.type = "string"
                         THEN value.suggestion.value ELSE Undefined]
    ELSE JsNull

\* normalizeInvokeError(error, fallbackCode, fallbackMessage)
normalizeInvokeError(error, fallbackCode, fallbackMessage) ==
    IF IsMessage(error)
    THEN [code |-> fallbackCode, message |-> error.value]
    ELSE IF error.type = "object" /\ error.isError /\ ~IsBlank(error.message.value)
    THEN [code |-> fallbackCode, message |-> error.message.value]
    ELSE LET direct == asRecord(error)
             parsed == parseFromRecord(direct, fallbackCode, fallbackMessage)
             nested == asRecord(direct.error)
             nestedParsed == parseFromRecord(nested, fallbackCode, fallbackMessage)
         IN IF direct # JsNull /\ parsed # JsNull THEN parsed
            ELSE IF direct # JsNull /\ nested # JsNull /\ nestedParsed # JsNull
            THEN nestedParsed
            ELSE [code |-> fallbackCode, message |-> fallbackMessage]

\* payloads of recording/status notifications (without the session identity)
StatusPayload(status, durationMs, degradeMessage) ==
    [status |-> status, durationMs |-> durationMs, sourceLabel |-> "event source",
     detail |-> "event detail", degradeMessage |-> degradeMessage]
StatusPayloads ==
    { StatusPayload("idle", 0, Undefined),
      StatusPayload("recording", 5000, Undefined),
      StatusPayload("recording", 1000, "audio degraded"),
      StatusPayload("paused", 5000, Undefined),
      StatusPayload("stopped", 5000, Undefined),
      StatusPayload("error", 5000, Undefined) }

\* the record kept in recordingLast; status is the status a notification carried
RecordingEvent(op, session, status) == [op |-> op, session |-> session, status |-> status]

RecordingInit ==
    /\ recordingStore = [sessionId |-> NoSession, projectId |-> NoRecording,
                         status |-> "idle", durationMs |-> 0,
                         sourceLabel |-> "not started", detail |-> "waiting to start",
                         degradeMessage |-> Undefined, error |-> NoError]
    /\ recordingCalls = EmptyBag
    /\ backendSessions = 0
    /\ recordingIssued = 0
    /\ cleared = {}
    /\ recordingLast = RecordingEvent("init", NoSession, Undefined)

\* the sessions a store update takes away
ClearedBy(store) ==
    IF recordingStore.sessionId # NoSession /\ store.sessionId = NoSession
    THEN cleared \cup {recordingStore.sessionId} ELSE cleared

\* Synced with the session cleared for status stopped only
SyncedStoppedOnly(store, session, payload) ==
    [store EXCEPT
        !.status = payload.status,
        !.durationMs = payload.durationMs,
        !.sourceLabel = payload.sourceLabel,
        !.detail = payload.detail,
        !.degradeMessage = payload.degradeMessage,
        !.sessionId = IF payload.status = "stopped" THEN NoSession ELSE session]

\* the state written by syncFromEvent
Synced(store, session, payload) ==
    [store EXCEPT
        !.status = payload.status,
        !.durationMs = payload.durationMs,
        !.sourceLabel = payload.sourceLabel,
        !.detail = payload.detail,
        !.degradeMessage = payload.degradeMessage,
        !.sessionId = IF payload.status \in {"stopped", "error"}
                      THEN NoSession ELSE session]

\* syncFromEvent: a recording/status notification is applied
SyncFromEvent(session, payload) ==
    /\ recordingStore' = Synced(recordingStore, session, payload)
    /\ recordingLast' = RecordingEvent("sync", session, payload.status)
    /\ UNCHANGED <<recordingCalls, backendSessions, recordingIssued, cleared,
                   recordingOthers>>

\* a recording command is sent; the handler awaits the reply
SendRecording(cmd, session, mode) ==
    /\ recordingCalls' = recordingCalls (+) SetToBag({[cmd |-> cmd, arg |-> session,
                                                       mode |-> mode]})
    /\ recordingIssued' = recordingIssued + 1
    /\ recordingLast' = RecordingEvent(cmd, session, Undefined)

\* startRecording up to its await
StartRecordingCall(mode) ==
    /\ SendRecording("start_recording", NoSession, mode)
    /\ UNCHANGED <<recordingStore, backendSessions, cleared, recordingOthers>>

\* Started without the reset of what an earlier session left behind
StartedKeepsOld(store, session, mode) ==
    [store EXCEPT !.sessionId = session, !.status = "recording",
                  !.detail = "recording started"]

\* the state written by startRecording's try branch
Started(store, session, mode) ==
    [store EXCEPT
        !.sessionId = session,
        !.projectId = NoRecording,
        !.status = "recording",
        !.durationMs = 0,
        !.sourceLabel = IF mode = "fullscreen" THEN "full screen" ELSE "window",
        !.detail = "recording started",
        !.degradeMessage = Undefined,
        !.error = NoError]

\* startRecording after its await: the backend started a session
StartRecordingOk(c) ==
    /\ c.cmd = "start_recording" /\ BagIn(c, recordingCalls)
    /\ recordingCalls' = recordingCalls (-) SetToBag({c})
    /\ backendSessions' = backendSessions + 1
    /\ recordingStore' = Started(recordingStore, backendSessions + 1, c.mode)
    /\ recordingLast' = RecordingEvent("start_ok", backendSessions + 1, Undefined)
    /\ UNCHANGED <<recordingIssued, cleared, recordingOthers>>

\* startRecording's catch
StartRecordingFail(c, error) ==
    /\ c.cmd = "start_recording" /\ BagIn(c, recordingCalls)
    /\ recordingCalls' = recordingCalls (-) SetToBag({c})
    /\ recordingStore' = [recordingStore EXCEPT
            !.sessionId = NoSession,
            !.status = "error",
            !.detail = "start failed",
            !.error = normalizeInvokeError(JsString(error), "START_RECORDING_FAIL",
                                           "start failed, check the permissions")]
    /\ cleared' = ClearedBy(recordingStore')
    /\ recordingLast' = RecordingEvent("start_fail", recordingStore.sessionId, Undefined)
    /\ UNCHANGED <<backendSessions, recordingIssued, recordingOthers>>

\* HasSession without the test: the handlers go on with no session
HasSessionAlways(store) ==
    TRUE

\* `const { sessionId } = get(); if (!sessionId) { ... return; }`
HasSession(store) ==
    store.sessionId # NoSession

\* the `if (!sessionId)` branch of pauseRecording, resumeRecording and stopRecording
NoSessionError(op, detail, message) ==
    /\ ~HasSession(recordingStore)
    /\ recordingStore' = [recordingStore EXCEPT
            !.status = "error",
            !.detail = detail,
            !.error = [code |-> "SESSION_NOT_FOUND", message |-> message]]
    /\ recordingLast' = RecordingEvent(op, NoSession, Undefined)
    /\ UNCHANGED <<recordingCalls, backendSessions, recordingIssued, cleared,
                   recordingOthers>>

\* Failed without `sessionId: null`: the session is kept after a failed command
FailedKeepsSession(store, detail, parsed) ==
    [store EXCEPT !.status = "error", !.detail = detail, !.error = parsed]

\* the state written by the catch of pauseRecording, resumeRecording, stopRecording
Failed(store, detail, parsed) ==
    [store EXCEPT !.status = "error", !.detail = detail, !.sessionId = NoSession,
                  !.error = parsed]

\* the catch of pauseRecording, resumeRecording and stopRecording
CommandFailed(c, op, detail, parsed) ==
    /\ BagIn(c, recordingCalls)
    /\ recordingCalls' = recordingCalls (-) SetToBag({c})
    /\ recordingStore' = Failed(recordingStore, detail, parsed)
    /\ cleared' = ClearedBy(recordingStore')
    /\ recordingLast' = RecordingEvent(op, c.arg, Undefined)
    /\ UNCHANGED <<backendSessions, recordingIssued, recordingOthers>>

\* pauseRecording without a session
PauseRecordingNoSession ==
    NoSessionError("pause_no_session", "no session to pause", "pause failed: no session")

\* pauseRecording up to its await
PauseRecordingCall ==
    /\ HasSession(recordingStore)
    /\ SendRecording("pause_recording", recordingStore.sessionId, Undefined)
    /\ UNCHANGED <<recordingStore, backendSessions, cleared, recordingOthers>>

\* pauseRecording after its await
PauseRecordingOk(c) ==
    /\ c.cmd = "pause_recording" /\ BagIn(c, recordingCalls)
    /\ recordingCalls' = recordingCalls (-) SetToBag({c})
    /\ recordingStore' = [recordingStore EXCEPT
            !.status = "paused", !.detail = "recording paused", !.error = NoError]
    /\ recordingLast' = RecordingEvent("pause_ok", c.arg, Undefined)
    /\ UNCHANGED <<backendSessions, recordingIssued, cleared, recordingOthers>>

\* pauseRecording's catch
PauseRecordingFail(c, error) ==
    /\ c.cmd = "pause_recording"
    /\ CommandFailed(c, "pause_fail", "pause failed",
                     normalizeInvokeError(JsString(error), "PAUSE_RECORDING_FAIL", "pause failed"))

\* resumeRecording without a session
ResumeRecordingNoSession ==
    NoSessionError("resume_no_session", "no session to resume", "resume failed: no session")

\* resumeRecording up to its await
ResumeRecordingCall ==
    /\ HasSession(recordingStore)
    /\ SendRecording("resume_recording", recordingStore.sessionId, Undefined)
    /\ UNCHANGED <<recordingStore, backendSessions, cleared, recordingOthers>>

\* resumeRecording after its await
ResumeRecordingOk(c) ==
    /\ c.cmd = "resume_recording" /\ BagIn(c, recordingCalls)
    /\ recordingCalls' = recordingCalls (-) SetToBag({c})
    /\ recordingStore' = [recordingStore EXCEPT
            !.status = "recording", !.detail = "recording resumed", !.error = NoError]
    /\ recordingLast' = RecordingEvent("resume_ok", c.arg, Undefined)
    /\ UNCHANGED <<backendSessions, recordingIssued, cleared, recordingOthers>>

\* resumeRecording's catch
ResumeRecordingFail(c, error) ==
    /\ c.cmd = "resume_recording"
    /\ CommandFailed(c, "resume_fail", "resume failed",
                     normalizeInvokeError(JsString(error), "RESUME_RECORDING_FAIL", "resume failed"))

\* stopRecording without a session
StopRecordingNoSession ==
    NoSessionError("stop_no_session", "no session to stop", "stop failed: no session")

\* stopRecording up to its await
StopRecordingCall ==
    /\ HasSession(recordingStore)
    /\ SendRecording("stop_recording", recordingStore.sessionId, Undefined)
    /\ recordingStore' = [recordingStore EXCEPT
            !.detail = "stopping, please wait", !.error = NoError]
    /\ UNCHANGED <<backendSessions, cleared, recordingOthers>>

\* Stopped without `sessionId: null`
StoppedKeepsSession(store, projectId) ==
    [store EXCEPT !.status = "stopped", !.projectId = projectId,
                  !.detail = "recording done", !.error = NoError]

\* the state written by stopRecording's try branch for the returned project
Stopped(store, projectId) ==
    [store EXCEPT !.status = "stopped", !.projectId = projectId,
                  !.sessionId = NoSession, !.detail = "recording done",
                  !.error = NoError]

\* stopRecording after its await: the backend returns the project of the session
StopRecordingOk(c) ==
    /\ c.cmd = "stop_recording" /\ BagIn(c, recordingCalls)
    /\ recordingCalls' = recordingCalls (-) SetToBag({c})
    /\ recordingStore' = Stopped(recordingStore, c.arg)
    /\ cleared' = ClearedBy(recordingStore')
    /\ recordingLast' = RecordingEvent("stop_ok", c.arg, Undefined)
    /\ UNCHANGED <<backendSessions, recordingIssued, recordingOthers>>

\* stopRecording's catch
StopRecordingFail(c, error) ==
    /\ c.cmd = "stop_recording"
    /\ CommandFailed(c, "stop_fail", "stop failed",
                     normalizeInvokeError(JsString(error), "STOP_RECORDING_FAIL", "stop failed"))

\* the recording store: the UI's calls, the backend's replies and its notifications
\* (the backend notifies only about sessions it has started)
RecordingNext ==
    \/ recordingIssued < MaxRecordingCalls /\ \E m \in CaptureModes : StartRecordingCall(m)
    \/ \E c \in BagToSet(recordingCalls) : StartRecordingOk(c)
    \/ \E c \in BagToSet(recordingCalls), e \in InvokeErrors : StartRecordingFail(c, e)
    \/ PauseRecordingNoSession
    \/ recordingIssued < MaxRecordingCalls /\ PauseRecordingCall
    \/ \E c \in BagToSet(recordingCalls) : PauseRecordingOk(c)
    \/ \E c \in BagToSet(recordingCalls), e \in InvokeErrors : PauseRecordingFail(c, e)
    \/ ResumeRecordingNoSession
    \/ recordingIssued < MaxRecordingCalls /\ ResumeRecordingCall
    \/ \E c \in BagToSet(recordingCalls) : ResumeRecordingOk(c)
    \/ \E c \in BagToSet(recordingCalls), e \in InvokeErrors : ResumeRecordingFail(c, e)
    \/ StopRecordingNoSession
    \/ recordingIssued < MaxRecordingCalls /\ StopRecordingCall
    \/ \E c \in BagToSet(recordingCalls) : StopRecordingOk(c)
    \/ \E c \in BagToSet(recordingCalls), e \in InvokeErrors : StopRecordingFail(c, e)
    \/ \E s \in 1..backendSessions, n \in StatusPayloads : SyncFromEvent(s, n)

(***************************************************************************)
(* StudioPage: the export submit action                                    *)
(***************************************************************************)
\* the submit call at rest: `submittingExport` false
NoSubmit == [pc |-> "idle", projectId |-> NoProject, loadSerial |-> 0, tail |-> 0,
             before |-> 0, actionError |-> FALSE]

PageInit == submit = NoSubmit

\* taskId && (status === "queued" || status === "running" || status === "fallback")
exportTaskActive ==
    exportStore.taskId # NoTask /\ exportStore.status \in {"queued", "running", "fallback"}

\* the load command whose reply the submit call awaits
SubmitAwaits(c) ==
    submit.pc = "load" /\ c.loadSerial = submit.loadSerial

\* the catch and finally blocks of submitExport
SubmitFailed == [NoSubmit EXCEPT !.actionError = TRUE]

\* submitExport up to `await loadProject(projectId)`; `before` notes the links the
\* chain had when the submit was called (history)
SubmitExport(p) ==
    /\ submit.pc = "idle"
    /\ ~exportTaskActive
    /\ LoadProjectSent(p)
    /\ submit' = [pc |-> "load", projectId |-> p, loadSerial |-> projectLoadSerial + 1,
                  tail |-> 0, before |-> Len(writes), actionError |-> FALSE]
    /\ UNCHANGED <<exportVars, recordingVars, utilVars, eventVars>>

\* the reload replies: loadProject returns and submitExport calls flushUpdates,
\* which awaits the link that is the chain's last one now
SubmitLoadReply(c) ==
    /\ SubmitAwaits(c)
    /\ LoadProjectReplied(c)
    /\ submit' = [submit EXCEPT !.pc = "flush", !.tail = Len(writes)]
    /\ UNCHANGED <<exportVars, recordingVars, utilVars, eventVars>>

\* the reload fails: loadProject throws into submitExport's catch block
SubmitLoadFail(c) ==
    /\ SubmitAwaits(c)
    /\ LoadProjectThrown(c)
    /\ submit' = SubmitFailed
    /\ UNCHANGED <<exportVars, recordingVars, utilVars, eventVars>>

\* `await flushUpdates()` continues: when the awaited link rejected the catch block
\* runs, otherwise startExport is called and start_export is sent
SubmitFlushed ==
    /\ submit.pc = "flush"
    /\ QueueSettled(writes, submit.tail)
    /\ IF submit.tail > 0 /\ writes[submit.tail].st = "failed"
       THEN /\ submit' = SubmitFailed
            /\ UNCHANGED exportVars
       ELSE /\ StartExportSent
            /\ submit' = [submit EXCEPT !.pc = "start"]
    /\ UNCHANGED <<projectVars, recordingVars, utilVars, eventVars>>

\* `await startExport(...)` continues (startExport catches its own failure):
\* setExportDirty(false) and the finally block
SubmitDone ==
    /\ submit.pc = "start"
    /\ ~BagIn(Call("start_export", NoTask), exportCalls)
    /\ submit' = NoSubmit
    /\ UNCHANGED <<exportVars, projectVars, recordingVars, utilVars, eventVars>>

\* the page with its two stores: the load on mount, timeline edits, the submit
\* action and the replies of the backend
SubmitNext ==
    \/ projectOps < MaxSubmitOps /\ \E p \in Projects : LoadProject(p)
    \/ \E c \in loadCalls, ok \in BOOLEAN : BackendLoad(c, ok)
    \/ \E c \in loadCalls : ~SubmitAwaits(c) /\ LoadReply(c)
    \/ \E c \in loadCalls : ~SubmitAwaits(c) /\ LoadFail(c)
    \/ projectOps < MaxSubmitOps /\ \E patch \in TimelinePatches : UpdateTimeline(patch)
    \/ \E i \in DOMAIN writes : WriteOk(i)
    \/ \E i \in DOMAIN writes : WriteFail(i)
    \/ projectOps < MaxSubmitOps /\ \E p \in Projects : SubmitExport(p)
    \/ \E c \in loadCalls : SubmitLoadReply(c)
    \/ \E c \in loadCalls : SubmitLoadFail(c)
    \/ SubmitFlushed
    \/ \E c \in BagToSet(exportCalls) : StartExportOk(c)
    \/ \E c \in BagToSet(exportCalls), e \in InvokeErrors : StartExportFail(c, e)
    \/ SubmitDone

(***************************************************************************)
(* utils/tauriError: the normalisation of failures                         *)
(***************************************************************************)
NoCall == [called |-> FALSE]

UtilInit == normalized = NoCall

\* what the properties code, message and suggestion of a payload can hold
PayloadCodes == {JsUndefined, JsNumber, JsString(""), JsString("E_BACKEND")}
PayloadMessages ==
    {JsUndefined, JsNumber, JsString(""), JsString(" "), JsString("inner message")}
PayloadSuggestions == {JsUndefined, JsNumber, JsString("try again")}

\* objects without a nested error
FlatPayloads ==
    {JsObject(FALSE, c, m, g, JsUndefined) :
        c \in PayloadCodes, m \in PayloadMessages, g \in PayloadSuggestions}

\* Error instances: their message is a string
ErrorPayloads ==
    {JsObject(TRUE, c, JsString(m), JsUndefined, n) :
        c \in {JsUndefined, JsString("E_BACKEND")}, m \in {"", " ", "error message"},
        n \in {JsUndefined,
               JsObject(FALSE, JsString("E_INNER"), JsString("inner message"),
                        JsUndefined, JsUndefined)}}

\* the payloads of a rejected command
InvokePayloads ==
    {JsUndefined, JsNull, JsNumber, JsString(""), JsString(" "), JsString("backend error")}
    \cup FlatPayloads
    \cup ErrorPayloads
    \cup {JsObject(FALSE, c, m, JsUndefined, n) :
            c \in {JsUndefined, JsString("E_BACKEND")},
            m \in {JsUndefined, JsString(" "), JsString("outer message")},
            n \in {JsNull, JsString("nested text")} \cup FlatPayloads}

\* a catch block normalises the payload of a rejected command
Normalize(error, fallbackCode, fallbackMessage) ==
    /\ normalized' = [called |-> TRUE, error |-> error, fallbackCode |-> fallbackCode,
                      fallbackMessage |-> fallbackMessage,
                      result |-> normalizeInvokeError(error, fallbackCode,
                                                      fallbackMessage)]
    /\ UNCHANGED <<exportVars, projectVars, recordingVars, pageVars, eventVars>>

NormalizeNext ==
    \E error \in InvokePayloads : Normalize(error, "FALLBACK_CODE", "fallback message")

(***************************************************************************)
(* Event subscriptions: useTauriEvent and App's listener effects           *)
(***************************************************************************)
EventInit == subscriptions = <<>>

\* the two effects: useTauriEvent guards its callback with `disposed`, App's
\* effects pass the callback to listen() as it is
SubscriptionKinds == {"hook", "app"}

\* the effect runs: `unlisten = null`, `disposed = false`, listen() is called;
\* `registered` is the backend's listener table, `unlistened` counts the calls of
\* the function listen() returns, `invoked` the calls of the callback and `late`
\* those made after the cleanup (history)
Subscribed(kind) ==
    [kind |-> kind, pc |-> "listening", registered |-> FALSE, disposed |-> FALSE,
     unlisten |-> FALSE, unlistened |-> 0, delivered |-> 0, invoked |-> 0, late |-> 0]

\* the function listen() returns: the listener leaves the backend's table
Unlistened(sub) ==
    [sub EXCEPT !.registered = FALSE, !.unlistened = @ + 1]

\* CallbackRuns without the `disposed` test of the hook
CallbackRunsAlways(sub) ==
    TRUE

\* the handler given to listen() calls the callback: always in App's effects,
\* `if (!disposed)` in useTauriEvent
CallbackRuns(sub) ==
    sub.kind = "app" \/ ~sub.disposed

Mount(kind) ==
    /\ Len(subscriptions) < MaxSubscriptions
    /\ subscriptions' = Append(subscriptions, Subscribed(kind))
    /\ UNCHANGED <<exportVars, projectVars, recordingVars, pageVars, utilVars>>

\* the backend takes the listen command: from now on events reach the handler
Register(i) ==
    /\ subscriptions[i].pc = "listening" /\ ~subscriptions[i].registered
    /\ subscriptions' = [subscriptions EXCEPT ![i].registered = TRUE]
    /\ UNCHANGED <<exportVars, projectVars, recordingVars, pageVars, utilVars>>

\* listen() resolves: `if (disposed) cleanup(); else unlisten = cleanup`
ListenResolved(i) ==
    /\ subscriptions[i].pc = "listening" /\ subscriptions[i].registered
    /\ subscriptions' = [subscriptions EXCEPT ![i] =
          IF @.disposed THEN [Unlistened(@) EXCEPT !.pc = "resolved"]
                        ELSE [@ EXCEPT !.pc = "resolved", !.unlisten = TRUE]]
    /\ UNCHANGED <<exportVars, projectVars, recordingVars, pageVars, utilVars>>

\* the effect's cleanup (run once by React): `disposed = true; if (unlisten) unlisten()`
Cleanup(i) ==
    /\ ~subscriptions[i].disposed
    /\ subscriptions' = [subscriptions EXCEPT ![i] =
          IF @.unlisten THEN [Unlistened(@) EXCEPT !.disposed = TRUE]
                        ELSE [@ EXCEPT !.disposed = TRUE]]
    /\ UNCHANGED <<exportVars, projectVars, recordingVars, pageVars, utilVars>>

\* the backend emits an event to a registered listener: its handler runs
Emit(i) ==
    /\ subscriptions[i].registered
    /\ subscriptions[i].delivered < MaxEvents
    /\ subscriptions' = [subscriptions EXCEPT ![i] =
          IF CallbackRuns(@)
          THEN [@ EXCEPT !.delivered = @ + 1, !.invoked = @ + 1,
                         !.late = IF subscriptions[i].disposed THEN @ + 1 ELSE @]
          ELSE [@ EXCEPT !.delivered = @ + 1]]
    /\ UNCHANGED <<exportVars, projectVars, recordingVars, pageVars, utilVars>>

EventNext ==
    \/ \E kind \in SubscriptionKinds : Mount(kind)
    \/ \E i \in DOMAIN subscriptions : Register(i)
    \/ \E i \in DOMAIN subscriptions : ListenResolved(i)
    \/ \E i \in DOMAIN subscriptions : Cleanup(i)
    \/ \E i \in DOMAIN subscriptions : Emit(i)

(***************************************************************************)
(* Properties of the failure normalisation                                 *)
(***************************************************************************)
\* the suggestion of a result (absent when the result has no such property)
SuggestionOf(r) == IF "suggestion" \in DOMAIN r THEN r.suggestion ELSE Undefined

\* value is an object with a non-blank string message
CarriesMessage(value) == value.type = "object" /\ IsMessage(value.message)

\* result r is the message of object o with o's string code (the fallback code when
\* it has none) and o's suggestion
ExtractedFrom(r, o, fallbackCode) ==
    /\ r.message = o.message.value
    /\ r.code = IF o.code.type = "string" THEN o.code.value ELSE fallbackCode
    /\ SuggestionOf(r) = IF o.suggestion.type = "string" THEN o.suggestion.value
                                                         ELSE Undefined

\* C37: normalizeInvokeError returns {fallback code, the string} for a non-blank
\* string; {fallback code, error message} for an Error with a non-blank message; for
\* an object with a non-blank string message, that message with the object's string
\* code (fallback code if it has none) and its suggestion; otherwise the same
\* extraction applied to the object's nested error field; and {fallback code,
\* fallback message} for anything else.  The result always has a code and a message.
C37_NormalizeCases ==
    normalized.called =>
        LET e == normalized.error
            r == normalized.result
            fc == normalized.fallbackCode
            fm == normalized.fallbackMessage
        IN /\ r.code # Undefined /\ r.message # Undefined /\ ~IsBlank(r.message)
           /\ IF IsMessage(e)
              THEN r.code = fc /\ r.message = e.value /\ SuggestionOf(r) = Undefined
              ELSE IF e.type = "object" /\ e.isError /\ IsMessage(e.message)
              THEN r.code = fc /\ r.message = e.message.value
                   /\ SuggestionOf(r) = Undefined
              ELSE IF CarriesMessage(e)
              THEN ExtractedFrom(r, e, fc)
              ELSE IF e.type = "object" /\ CarriesMessage(e.error)
              THEN ExtractedFrom(r, e.error, fc)
              ELSE r.code = fc /\ r.message = fm /\ SuggestionOf(r) = Undefined

\* an object with a blank message and a code of its own, whose nested error has a
\* message and a suggestion but no code: the result is taken from the nested error
\* alone, with the fallback code
C37_Witness ==
    /\ normalized.called
    /\ normalized.error.type = "object"
    /\ normalized.error.code = JsString("E_BACKEND")
    /\ normalized.error.message = JsString(" ")
    /\ normalized.error.error.type = "object"
    /\ normalized.result = [code |-> "FALLBACK_CODE", message |-> "inner message",
                            suggestion |-> "try again"]

(***************************************************************************)
(* Properties of the event subscriptions                                   *)
(***************************************************************************)
\* C39: for an event subscription, in both orders of "listener registration
\* completes" and "cleanup runs": the registered listener is unregistered exactly
\* once (never twice, never before the cleanup, and once both have happened) and is
\* not left registered after cleanup; with useTauriEvent the callback is never
\* invoked after the cleanup has run.
C39_UnlistenOnce ==
    \A i \in DOMAIN subscriptions :
        LET sub == subscriptions[i] IN
        /\ sub.unlistened <= 1
        /\ sub.unlistened = 1 => sub.disposed /\ sub.pc = "resolved"
        /\ (sub.disposed /\ sub.pc = "resolved") =>
              sub.unlistened = 1 /\ ~sub.registered
        /\ sub.kind = "hook" => sub.late = 0

\* a hook subscription whose cleanup ran before listen() resolved: the listener was
\* unregistered by the continuation of listen(), and the event that arrived in
\* between did not reach the callback
C39_Witness ==
    \E i \in DOMAIN subscriptions :
        LET sub == subscriptions[i] IN
        /\ sub.kind = "hook"
        /\ sub.disposed /\ sub.pc = "resolved" /\ ~sub.unlisten
        /\ sub.unlistened = 1 /\ ~sub.registered
        /\ sub.delivered = 1 /\ sub.invoked = 0

(***************************************************************************)
(* Properties of the export store                                          *)
(***************************************************************************)
\* the step just taken delivered an export/progress notification
IsPushStep == exportLast'.op \in {"push_apply", "push_adopt", "push_drop"}

\* the store after the step holds a notification's values under identity `task`
HoldsPush(task) ==
    /\ exportStore'.taskId = task
    /\ \E n \in PushPayloads :
          /\ exportStore'.status = n.status
          /\ exportStore'.progress = ClampProgress(n.progress)
          /\ exportStore'.detail = n.detail
          /\ exportStore'.error = IF n.status = "failed" THEN n.detail ELSE Undefined

\* poll loop k took a step
LoopStepped(k) == pollLoops'[k] # pollLoops[k]

\* C1 as stated: a push notification is applied if and only if its task identity
\* equals the current task identity; in every other case, also when there is no
\* current identity, the export state is left unchanged.
C1_PushOnlyIfCurrent ==
    [][IsPushStep =>
         IF exportLast'.task = exportStore.taskId
         THEN HoldsPush(exportStore.taskId)
         ELSE UNCHANGED exportStore]_vars

\* C2: a poll loop changes the export state only when the current identity is the
\* loop's identity at the moment its reply arrives; a loop that takes a step while
\* the current identity differs from its own changes no state and issues no
\* status fetch, and when that step is a tick (the end of its sleep) it returns.
C2_PollOnlyForCurrent ==
    [][\A k \in DOMAIN pollLoops :
          LoopStepped(k) =>
             /\ exportStore' # exportStore => exportStore.taskId = pollLoops[k].taskId
             /\ exportStore.taskId # pollLoops[k].taskId =>
                   /\ pollLoops'[k].pc # "fetch"
                   /\ pollLoops[k].pc = "sleep" => pollLoops'[k].pc = "done"
                   /\ exportLast'.op # "poll_error" => pollLoops'[k].pc = "done"
                   /\ UNCHANGED <<exportStore, exportPollSerial, exportCalls>>]_vars

\* C2 witness: a status reply was dropped because the identity changed while the
\* fetch was in flight
C2_Witness ==
    /\ exportLast.op = "poll_drop"
    /\ exportStore.taskId # exportLast.task

\* C3 as stated: a successful retry of the current identity T1 installs the new
\* identity with status queued and progress 0, and no later poll reply or push
\* notification carrying T1 changes the export state.
C3_RetryReplaces ==
    [][/\ (exportLast'.op = "retry_ok" /\ exportLast'.task = exportStore.taskId) =>
             /\ exportStore'.taskId = backendTasks'
             /\ exportStore'.taskId # exportStore.taskId
             /\ exportStore'.status = "queued"
             /\ exportStore'.progress = 0
       /\ (/\ exportLast'.op \in {"push_apply", "push_adopt", "push_drop",
                                  "poll_apply", "poll_drop", "poll_exit", "poll_error"}
           /\ exportLast'.task \in retired) =>
             UNCHANGED exportStore]_vars

\* C4 as stated: for one task identity the progress held after each applied update
\* (poll snapshot or push notification) never decreases until a terminal status
\* has been applied.
C4_ProgressMonotonic ==
    [][(/\ exportLast'.op \in {"push_apply", "poll_apply"}
        /\ exportStore'.taskId = exportStore.taskId
        /\ exportStore.status \notin TerminalStatus) =>
          exportStore'.progress >= exportStore.progress]_vars

\* C16: a successful start-export adopts the returned identity with status queued
\* and progress 0 and starts a poll loop for it; a failed one leaves status failed,
\* progress 100, a non-empty error message, no current identity and starts no loop.
C16_StartExportOutcome ==
    [][/\ exportLast'.op = "start_ok" =>
             /\ exportStore'.taskId = backendTasks' /\ backendTasks' = backendTasks + 1
             /\ exportStore'.status = "queued"
             /\ exportStore'.progress = 0
             /\ exportPollSerial' = exportPollSerial + 1
             /\ Len(pollLoops') = Len(pollLoops) + 1
             /\ pollLoops'[exportPollSerial'].taskId = exportStore'.taskId
             /\ pollLoops'[exportPollSerial'].pc = "sleep"
       /\ exportLast'.op = "start_fail" =>
             /\ exportStore'.taskId = NoTask
             /\ exportStore'.status = "failed"
             /\ exportStore'.progress = 100
             /\ exportStore'.error # Undefined /\ ~IsBlank(exportStore'.error)
             /\ UNCHANGED <<exportPollSerial, backendTasks>>
             /\ Len(pollLoops') = Len(pollLoops)]_vars

\* C16 witness: a start-export failed with a blank payload after an earlier one had
\* succeeded
C16_Witness ==
    /\ exportLast.op = "start_fail"
    /\ backendTasks >= 1 /\ Len(pollLoops) >= 1
    /\ exportStore.taskId = NoTask
    /\ exportStore.error = "start export failed"

\* C21: every poll loop eventually terminates, provided its timer fires and each
\* status fetch replies or fails; no loop makes more ticks than the ceiling, also
\* when no snapshot is ever terminal or every fetch fails.
C21_PollTerminates ==
    /\ [](\A k \in DOMAIN pollLoops : pollLoops[k].attempt < MaxPollAttempts)
    /\ \A k \in 1..MaxPollStarts :
          (k \in DOMAIN pollLoops) ~> (k \in DOMAIN pollLoops /\ pollLoops[k].pc = "done")

\* C21 witness: the loop of the current identity ended at the ceiling on a failed
\* fetch, with no terminal status applied
C21_Witness ==
    /\ exportLast.op = "poll_error"
    /\ exportStore.taskId # NoTask
    /\ exportStore.status \notin TerminalStatus
    /\ pollLoops[exportPollSerial].taskId = exportStore.taskId
    /\ pollLoops[exportPollSerial].pc = "done"

\* C22 as stated: once a terminal status is held for a task identity, no later poll
\* snapshot or push notification for that identity changes the status back to
\* queued, running or fallback.
C22_TerminalIsFinal ==
    [][(/\ exportLast'.op \in {"push_apply", "poll_apply"}
        /\ exportStore.taskId # NoTask
        /\ exportStore'.taskId = exportStore.taskId
        /\ exportStore.status \in TerminalStatus) =>
          exportStore'.status \in TerminalStatus]_vars

\* C26 as stated: for one task identity at most one retry command keyed by it is
\* awaiting its reply: an overlapping retry() call sends no second command, and no
\* two replacement tasks are made for the same identity.
C26_OneRetryPerTask ==
    \A t \in 1..backendTasks : CopiesIn(Call("retry_export", t), exportCalls) <= 1

\* C28: after a poll tick applies a snapshot, progress is 0 when the snapshot's
\* status is queued, at least 45 when it is running, at least 62 when it is
\* fallback, and exactly 100 when it is success or failed.
C28_PollProgress ==
    [][exportLast'.op = "poll_apply" =>
          LET snapStatus == exportStore'.status
              progress == exportStore'.progress
          IN /\ snapStatus = "queued" => progress = 0
             /\ snapStatus = "running" => progress >= 45
             /\ snapStatus = "fallback" => progress >= 62
             /\ snapStatus \in TerminalStatus => progress = 100]_vars

\* a running snapshot was applied over a progress a notification had raised above 45
C28_Witness ==
    /\ exportLast.op = "poll_apply"
    /\ exportStore.status = "running"
    /\ exportStore.progress > 45

\* C29 as stated: a status fetch that fails during polling changes no engine state
\* (taskId, status, progress, detail, error) and the loop goes on to its next tick
\* instead of stopping.
C29_FetchFailContinues ==
    [][exportLast'.op = "poll_error" =>
          /\ UNCHANGED exportStore
          /\ \E k \in DOMAIN pollLoops : LoopStepped(k)
          /\ \A k \in DOMAIN pollLoops : LoopStepped(k) =>
                /\ pollLoops'[k].pc = "sleep"
                /\ pollLoops'[k].attempt = pollLoops[k].attempt + 1]_vars

\* C29 amended: a status fetch that fails during polling changes no engine state;
\* the loop goes on to its next tick unless the failed fetch was the last attempt
\* the ceiling allows, in which case the loop ends.
C29_FetchFailContinuesBelowCeiling ==
    [][exportLast'.op = "poll_error" =>
          /\ UNCHANGED exportStore
          /\ \E k \in DOMAIN pollLoops : LoopStepped(k)
          /\ \A k \in DOMAIN pollLoops : LoopStepped(k) =>
                IF pollLoops[k].attempt + 1 < MaxPollAttempts
                THEN /\ pollLoops'[k].pc = "sleep"
                     /\ pollLoops'[k].attempt = pollLoops[k].attempt + 1
                ELSE pollLoops'[k].pc = "done"]_vars

\* a fetch of the current task's loop failed and the loop waits for its next tick
C29_Witness ==
    /\ exportLast.op = "poll_error"
    /\ exportStore.taskId # NoTask
    /\ exportStore.status \notin TerminalStatus
    /\ pollLoops[exportPollSerial].taskId = exportStore.taskId
    /\ pollLoops[exportPollSerial].pc = "sleep"
    /\ pollLoops[exportPollSerial].attempt = 1

\* C32 as stated: a failed retry command leaves the current task identity as it was
\* when the failure reply arrives, and the poll loop of that identity is not made
\* stale by it.
C32_RetryFailKeepsIdentity ==
    [][exportLast'.op = "retry_fail" =>
          /\ exportStore'.taskId = exportStore.taskId
          /\ \A k \in DOMAIN pollLoops :
                (pollLoops[k].pc # "done" /\ ~PollStale(k)) =>
                   (exportStore'.taskId = pollLoops'[k].taskId /\ k = exportPollSerial')]_vars

\* C33: at most one poll loop can change the export state; as soon as a newer loop
\* has started, every older loop exits at its next check (the end of its sleep or
\* the reply of its fetch) without applying a snapshot, even when the current
\* identity is the older loop's own.
C33_OnlyNewestLoopWrites ==
    [][\A k \in DOMAIN pollLoops :
          LoopStepped(k) =>
             /\ exportStore' # exportStore => k = exportPollSerial
             /\ k # exportPollSerial =>
                   /\ UNCHANGED exportStore
                   /\ pollLoops'[k].pc # "fetch"
                   /\ exportLast'.op # "poll_error" => pollLoops'[k].pc = "done"]_vars

\* an older loop dropped a status reply although the current identity was its own
C33_Witness ==
    /\ exportLast = Event("poll_drop", exportStore.taskId)
    /\ exportStore.taskId # NoTask
    /\ \E k \in DOMAIN pollLoops :
          /\ k < exportPollSerial
          /\ pollLoops[k].taskId = exportStore.taskId
          /\ pollLoops[k].pc = "done"
    /\ pollLoops[exportPollSerial].taskId # exportStore.taskId

C38_RetryNeedsTask ==
    [][(exportLast'.op \in {"retry_noop", "retry_call"} /\ exportStore.taskId = NoTask) =>
          /\ exportLast'.op = "retry_noop"
          /\ UNCHANGED <<exportStore, exportCalls, exportIssued, pollLoops,
                         exportPollSerial, backendTasks>>]_vars

\* retry was called after a failed start: the store shows the failure and no
\* identity, and nothing was sent
C38_Witness ==
    /\ exportLast = Event("retry_noop", NoTask)
    /\ exportStore.taskId = NoTask
    /\ exportStore.status = "failed"
    /\ exportCalls = EmptyBag
    /\ pollLoops = <<>>

(***************************************************************************)
(* Properties of the project store                                         *)
(***************************************************************************)
\* the links whose write command is awaiting its reply
InFlight == {i \in DOMAIN writes : writes[i].st = "inflight"}

\* C5: with overlapping loads, in every order of the replies, only the reply of the
\* last-issued load is installed: a non-empty cache holds the manifest installed by
\* the latest load and belongs to the current project, the reply of an older load
\* is always dropped and the reply of the latest load is never dropped.
C5_LatestLoadWins ==
    /\ installedBy \in {0, projectLoadSerial}
    /\ projectStore.manifest # NoManifest <=> installedBy # 0
    /\ projectStore.manifest # NoManifest =>
          /\ projectStore.manifest.project = projectStore.currentProjectId
          /\ projectStore.manifest = backendProjects[projectStore.currentProjectId]
    /\ projectLast.op = "load_install" =>
          /\ projectLast.n = projectLoadSerial
          /\ installedBy = projectLoadSerial
    /\ projectLast.op = "load_drop" => projectLast.n < projectLoadSerial

\* C5 witness: load(A), load(B), a reload of A; the reload's reply was installed and
\* the reply of the first load of A arrived last and was dropped
C5_Witness ==
    /\ projectLoadSerial = 3
    /\ loadCalls = {}
    /\ projectLast = ProjectEvent("load_drop", 1)
    /\ installedBy = 3
    /\ projectStore = [currentProjectId |-> "A", manifest |-> backendProjects["A"]]

\* C6: at most one write command is in flight at any time, and the backend receives
\* the write commands in the order the patch operations were called: the k-th
\* command it receives is the k-th patch called, and every patch that is no longer
\* waiting has been received.
C6_WritesSerialized ==
    /\ Cardinality(InFlight) <= 1
    /\ \A k \in DOMAIN backendLog : backendLog[k] = k
    /\ \A i \in DOMAIN writes : writes[i].st # "queued" <=> i \in DOMAIN backendLog

\* C6 witness: a timeline patch then a camera-motion patch; the first command failed
\* and the second one is in flight
C6_Witness ==
    /\ Len(writes) = 2
    /\ writes[1].kind = "update_timeline" /\ writes[1].st = "failed"
    /\ writes[2].kind = "update_camera_motion" /\ writes[2].st = "inflight"
    /\ backendLog = <<1, 2>>

\* C10: when flushUpdates completes, every write enqueued before the flush call has
\* received its reply.
C10_FlushAwaitsWrites ==
    projectLast.op \in {"flush_resolved", "flush_rejected"} =>
        \A i \in 1..projectLast.n : writes[i].st \in Settled

\* C10 witness: a flush called after two patches completed
C10_Witness ==
    /\ projectLast.op \in {"flush_resolved", "flush_rejected"}
    /\ projectLast.n = 2
    /\ writes[1].st \in Settled /\ writes[2].st \in Settled

\* C11 as stated: flushUpdates completes without an error for its caller even when
\* writes enqueued before it failed, the most recently enqueued one included.
C11_FlushNeverRejects ==
    projectLast.op # "flush_rejected"

\* the backend replies to the write command in flight, with success or failure
WriteReplies == \E i \in DOMAIN writes : WriteOk(i) \/ WriteFail(i)

\* C12: the queue never halts: provided every write command eventually gets its
\* reply, the command of every enqueued write is eventually sent to the backend,
\* also when writes enqueued before it failed.
C12_QueueNeverHalts ==
    \A i \in 1..MaxProjectOps :
        (i \in DOMAIN writes) ~> (i \in DOMAIN writes /\ writes[i].st # "queued")

\* C12 witness: two writes failed and the third one, enqueued behind them, was
\* sent and succeeded
C12_Witness ==
    /\ Len(writes) = 3
    /\ writes[1].st = "failed" /\ writes[2].st = "failed" /\ writes[3].st = "ok"
    /\ backendLog = <<1, 2, 3>>

\* the sub-object a write command patches
SubObject(w) == IF w.kind = "update_timeline" THEN "timeline" ELSE "cameraMotion"

\* manifest m holds the fields of w's patch in the patched sub-object
Overwritten(m, w) ==
    \A f \in DOMAIN w.patch : m[SubObject(w)][f] = w.patch[f]

\* the step just taken enqueued a patch with the then current project as target, and
\* no step changes the target of a queued patch
TargetCaptured ==
    /\ projectLast'.op = "patch_call" =>
          writes'[Len(writes')].target = projectStore.currentProjectId
    /\ \A i \in DOMAIN writes : writes'[i].target = writes[i].target

\* the reply of write i reached the backend's project writes[i].target and no other
BackendTargeted(i) ==
    /\ Overwritten(backendProjects'[writes[i].target], writes[i])
    /\ \A p \in Projects \ {writes[i].target} : backendProjects'[p] = backendProjects[p]

\* C13 as stated: a queued patch is sent with the project identity current at
\* enqueue time; when its reply arrives and the current identity differs from that
\* target the cached manifest is not modified, otherwise the patch fields overwrite
\* the same fields of the cached sub-object.
C13_MergeIffTargetCurrent ==
    [][/\ TargetCaptured
       /\ \A i \in DOMAIN writes :
             (projectLast'.op = "write_ok" /\ projectLast'.n = i) =>
                /\ BackendTargeted(i)
                /\ IF projectStore.currentProjectId # writes[i].target
                   THEN UNCHANGED projectStore
                   ELSE /\ projectStore'.manifest # NoManifest
                        /\ Overwritten(projectStore'.manifest, writes[i])]_vars

\* C13 amended: as stated, except that the patch fields overwrite the cached
\* sub-object only when a manifest is cached; when the cache is empty (a load of the
\* same project is outstanding) the reply leaves it empty.
C13_MergeIffTargetCurrentAndCached ==
    [][/\ TargetCaptured
       /\ \A i \in DOMAIN writes :
             (projectLast'.op = "write_ok" /\ projectLast'.n = i) =>
                /\ BackendTargeted(i)
                /\ IF projectStore.currentProjectId # writes[i].target
                   THEN UNCHANGED projectStore
                   ELSE IF projectStore.manifest = NoManifest
                   THEN UNCHANGED projectStore
                   ELSE /\ projectStore'.currentProjectId = projectStore.currentProjectId
                        /\ Overwritten(projectStore'.manifest, writes[i])]_vars

\* C13 witness: the second patch for project A got its reply after project B was
\* loaded: the backend's A holds the patch, the cache holds B's manifest untouched
C13_Witness ==
    /\ projectLast = ProjectEvent("write_ok", 2)
    /\ writes[2].target = "A"
    /\ projectStore = [currentProjectId |-> "B", manifest |-> DefaultManifest("B")]
    /\ Overwritten(backendProjects["A"], writes[2])

\* some write of the given kind for the current project has succeeded
PatchedFor(kind) ==
    \E i \in DOMAIN writes :
        /\ writes[i].target = projectStore.currentProjectId
        /\ writes[i].kind = kind
        /\ writes[i].st = "ok"

\* C14: while the reply of the latest load has not been installed the cached
\* manifest is empty, and a non-empty cached manifest is a manifest of the current
\* project: it was installed by the latest load, and whatever differs in it from the
\* project's initial manifest comes from a successful patch for the current project.
C14_CacheOfCurrentProject ==
    /\ installedBy # projectLoadSerial => projectStore.manifest = NoManifest
    /\ projectStore.currentProjectId = NoProject => projectStore.manifest = NoManifest
    /\ projectStore.manifest # NoManifest =>
          LET m == projectStore.manifest
              d == DefaultManifest(projectStore.currentProjectId)
          IN /\ m.project = projectStore.currentProjectId
             /\ m.title = d.title
             /\ m.timeline # d.timeline => PatchedFor("update_timeline")
             /\ m.cameraMotion # d.cameraMotion => PatchedFor("update_camera_motion")

\* C14 witness: B was loaded and installed after A, and a patch for A succeeded;
\* the cache holds B's manifest without the patch
C14_Witness ==
    /\ projectLoadSerial = 2 /\ installedBy = 2 /\ loadCalls = {}
    /\ projectStore = [currentProjectId |-> "B", manifest |-> DefaultManifest("B")]
    /\ \E i \in DOMAIN writes : writes[i].target = "A" /\ writes[i].st = "ok"
    /\ backendProjects["A"] # DefaultManifest("A")

\* C25: a patch operation called while there is no current project enqueues
\* nothing, sends no backend command and leaves the cache and the write queue
\* unchanged.
C25_PatchNeedsProject ==
    [][(/\ projectLast'.op \in {"patch_noop", "patch_call"}
        /\ projectStore.currentProjectId = NoProject) =>
          UNCHANGED <<projectStore, writes, backendLog, backendProjects, loadCalls,
                      flushes>>]_vars

\* C25 witness: a patch was called before any project was loaded
C25_Witness ==
    /\ projectLast.op = "patch_noop"
    /\ projectStore = [currentProjectId |-> NoProject, manifest |-> NoManifest]
    /\ writes = <<>> /\ backendLog = <<>>

\* no load is outstanding, every queued write has its reply, no flush is pending
Quiescent ==
    /\ loadCalls = {}
    /\ flushes = {}
    /\ \A i \in DOMAIN writes : writes[i].st \in Settled

\* C27 as stated: whenever the system is quiescent and every write for the current
\* project succeeded, the timeline and camera-motion sub-objects of the cached
\* manifest equal the backend's for the current project.
C27_CacheMirrorsBackend ==
    (/\ Quiescent
     /\ projectStore.manifest # NoManifest
     /\ \A i \in DOMAIN writes :
           writes[i].target = projectStore.currentProjectId => writes[i].st = "ok") =>
        LET b == backendProjects[projectStore.currentProjectId]
        IN /\ projectStore.manifest.timeline = b.timeline
           /\ projectStore.manifest.cameraMotion = b.cameraMotion

\* manifest n differs from manifest m at most in the fields of w's patch inside the
\* sub-object w patches
OnlyPatched(m, n, w) ==
    /\ DOMAIN n = DOMAIN m
    /\ \A g \in DOMAIN m \ {SubObject(w)} : n[g] = m[g]
    /\ DOMAIN n[SubObject(w)] = DOMAIN m[SubObject(w)]
    /\ \A f \in DOMAIN m[SubObject(w)] \ DOMAIN w.patch :
          n[SubObject(w)][f] = m[SubObject(w)][f]

\* C30: a timeline patch changes only fields of the cached manifest's timeline
\* sub-object and a camera-motion patch only fields of its cameraMotion sub-object;
\* every other part of the manifest and the current project identity are unchanged,
\* and fields of the patched sub-object not named in the patch keep their values.
C30_PatchFrame ==
    [][/\ projectLast'.op \in {"patch_noop", "patch_call", "write_fail"} =>
             UNCHANGED projectStore
       /\ \A i \in DOMAIN writes :
             (projectLast'.op = "write_ok" /\ projectLast'.n = i) =>
                /\ projectStore'.currentProjectId = projectStore.currentProjectId
                /\ IF projectStore.manifest = NoManifest
                   THEN projectStore'.manifest = NoManifest
                   ELSE /\ projectStore'.manifest # NoManifest
                        /\ OnlyPatched(projectStore.manifest, projectStore'.manifest,
                                       writes[i])]_vars

\* a timeline patch and then a camera-motion patch were merged into the cached
\* manifest: each changed its own field, the other fields are as loaded
C30_Witness ==
    /\ projectLast = ProjectEvent("write_ok", 2)
    /\ writes[1].kind = "update_timeline" /\ writes[2].kind = "update_camera_motion"
    /\ projectStore.manifest # NoManifest
    /\ projectStore.manifest.title = "untitled"
    /\ projectStore.manifest.timeline = [trimStartMs |-> 1, aspectRatio |-> "16:9"]
    /\ projectStore.manifest.cameraMotion = [enabled |-> FALSE, intensity |-> "medium"]

\* C31: a queued write whose backend command fails leaves the cached manifest
\* unchanged; the local merge of a patch happens only in the step in which its write
\* command succeeded, so the cache never shows a patch the backend rejected.
C31_FailedWriteNotMerged ==
    [][/\ projectLast'.op = "write_fail" =>
             /\ UNCHANGED <<projectStore, backendProjects>>
             /\ writes'[projectLast'.n].st = "failed"
       /\ (/\ projectStore.manifest # NoManifest
           /\ projectStore'.manifest # NoManifest
           /\ projectStore'.manifest # projectStore.manifest) =>
             /\ projectLast'.op = "write_ok"
             /\ writes[projectLast'.n].st = "inflight"
             /\ writes'[projectLast'.n].st = "ok"
             /\ Overwritten(backendProjects'[writes[projectLast'.n].target],
                            writes[projectLast'.n])]_vars

\* a write for the current project failed while its manifest was cached: the cache
\* is the manifest as loaded
C31_Witness ==
    /\ projectLast.op = "write_fail"
    /\ writes[projectLast.n].st = "failed"
    /\ writes[projectLast.n].target = projectStore.currentProjectId
    /\ projectStore.manifest # NoManifest
    /\ projectStore.manifest = DefaultManifest(projectStore.currentProjectId)

\* the load issued last has had its reply and the reply installed nothing: its
\* command failed (the reply of the latest load is never dropped)
LatestLoadFailed ==
    /\ projectLoadSerial > 0
    /\ \A c \in loadCalls : c.loadSerial # projectLoadSerial
    /\ installedBy # projectLoadSerial

\* the step just taken is the failure of load command c
LoadFailedStep(c) ==
    /\ c.st = "failed"
    /\ c \notin loadCalls'
    /\ projectLast' = ProjectEvent("load_fail", c.loadSerial)

\* C35 as stated: when a load command fails, the cache stays empty with the
\* requested project as current identity, the failure goes to the caller, and no
\* reply of an older load can afterwards install a manifest.
C35_LoadFailLeavesEmpty ==
    /\ [][\A c \in loadCalls :
             LoadFailedStep(c) =>
                projectStore' = [currentProjectId |-> c.projectId,
                                 manifest |-> NoManifest]]_vars
    /\ [](LatestLoadFailed => projectStore.manifest = NoManifest)

\* C35 amended: a failing load command leaves the store as it is and the failure
\* goes to the caller; when the failing load is the one issued last, the cache is
\* empty with the requested project as current identity, and stays so whatever
\* replies of older loads arrive afterwards.
C35_LatestLoadFailLeavesEmpty ==
    /\ [][\A c \in loadCalls :
             /\ (c.st = "failed" /\ c \notin loadCalls') => LoadFailedStep(c)
             /\ LoadFailedStep(c) =>
                   /\ UNCHANGED <<projectStore, installedBy, projectLoadSerial>>
                   /\ c.loadSerial = projectLoadSerial =>
                         projectStore' = [currentProjectId |-> c.projectId,
                                          manifest |-> NoManifest]]_vars
    /\ [](LatestLoadFailed => projectStore.manifest = NoManifest)

\* the load issued last failed and the reply of an older load of the same project
\* arrived afterwards and was dropped: the cache is still empty
C35_Witness ==
    /\ projectLoadSerial = 2
    /\ LatestLoadFailed
    /\ projectLast = ProjectEvent("load_drop", 1)
    /\ loadCalls = {}
    /\ projectStore = [currentProjectId |-> "A", manifest |-> NoManifest]

(***************************************************************************)
(* Properties of the submit action                                         *)
(***************************************************************************)
\* C34: the submit action sends start_export only after its reload of the project
\* and then the flush of the write queue have both completed, in that order, so
\* every patch enqueued before the submit has its reply before start_export is
\* sent; when the reload or the flush fails, no start_export is sent.
C34_SubmitOrder ==
    [][/\ exportIssued' # exportIssued =>
             /\ submit.pc = "flush" /\ submit'.pc = "start"
             /\ \A c \in loadCalls : c.loadSerial # submit.loadSerial
             /\ submit.tail >= submit.before
             /\ submit.tail > 0 => writes[submit.tail].st = "ok"
             /\ \A i \in 1..submit.before : writes[i].st \in Settled
       /\ (submit.pc = "load" /\ submit'.pc = "flush") =>
             /\ projectLast'.op \in {"load_install", "load_drop"}
             /\ projectLast'.n = submit.loadSerial
             /\ UNCHANGED exportVars
       /\ (projectLast'.op = "load_fail" /\ projectLast'.n = submit.loadSerial) =>
             /\ submit' = SubmitFailed
             /\ UNCHANGED exportVars
       /\ (/\ submit.pc = "flush" /\ submit' # submit
           /\ submit.tail > 0 /\ writes[submit.tail].st = "failed") =>
             /\ submit' = SubmitFailed
             /\ UNCHANGED exportVars
       /\ BagIn(Call("start_export", NoTask), exportCalls) => submit.pc = "start"]_vars

\* start_export has just been sent by a submit called while a patch was queued: the
\* reload replied, then the patch, and only then did the flush let the submit go on
C34_Witness ==
    /\ exportLast.op = "start_call"
    /\ submit.pc = "start"
    /\ submit.before = 1 /\ submit.tail = 1
    /\ projectLast = ProjectEvent("write_ok", 1)
    /\ BagIn(Call("start_export", NoTask), exportCalls)

(***************************************************************************)
(* Properties of the recording store                                       *)
(***************************************************************************)
\* the step just taken is a call of pauseRecording, resumeRecording or stopRecording
IsSessionCall ==
    recordingLast'.op \in {"pause_recording", "resume_recording", "stop_recording",
                           "pause_no_session", "resume_no_session", "stop_no_session"}

\* C7: a call of pause, resume or stop made while sessionId is null sends no backend
\* command, sets status to error and records an error with code SESSION_NOT_FOUND.
C7_NoSessionNoCommand ==
    [][(IsSessionCall /\ recordingStore.sessionId = NoSession) =>
          /\ UNCHANGED <<recordingCalls, recordingIssued>>
          /\ recordingStore'.status = "error"
          /\ recordingStore'.error.code = "SESSION_NOT_FOUND"
          /\ recordingStore'.sessionId = NoSession]_vars

\* C7 witness: stop called after a session was stopped, with no command in flight
C7_Witness ==
    /\ recordingLast.op = "stop_no_session"
    /\ recordingStore.projectId # NoRecording
    /\ recordingStore.status = "error"
    /\ recordingStore.error.code = "SESSION_NOT_FOUND"
    /\ recordingCalls = EmptyBag

\* C8 as stated: in every reachable state sessionId is non-null exactly when status
\* is recording or paused.
C8_SessionIffActive ==
    recordingStore.sessionId # NoSession <=> recordingStore.status \in ActiveStatus

\* C9 as stated: once a local stop or a command failure has cleared session S
\* (sessionId null, status stopped or error), a notification carrying S with status
\* recording or paused does not restore sessionId to S and does not make the status
\* active again.
C9_NoResurrection ==
    [][(/\ recordingLast'.op = "sync"
        /\ recordingLast'.status \in ActiveStatus
        /\ recordingLast'.session \in cleared
        /\ recordingStore.sessionId = NoSession
        /\ recordingStore.status \in {"stopped", "error"}) =>
          /\ recordingStore'.sessionId # recordingLast'.session
          /\ recordingStore'.status \notin ActiveStatus]_vars

\* C15 as stated: the status changes from stopped or error to recording only by a
\* successful start command, never by a pause, resume or stop reply or by a
\* notification.
C15_RecordingOnlyByStart ==
    [][(/\ recordingStore.status \in {"stopped", "error"}
        /\ recordingStore'.status = "recording") =>
          recordingLast'.op = "start_ok"]_vars

\* C17: a successful start-session leaves status recording, the returned session
\* identity, durationMs 0 and neither error nor degrade message; a failed one leaves
\* status error, sessionId null and an error with a code and a message.
C17_StartRecordingOutcome ==
    [][/\ recordingLast'.op = "start_ok" =>
             /\ backendSessions' = backendSessions + 1
             /\ recordingStore'.sessionId = backendSessions'
             /\ recordingStore'.status = "recording"
             /\ recordingStore'.durationMs = 0
             /\ recordingStore'.error = NoError
             /\ recordingStore'.degradeMessage = Undefined
       /\ recordingLast'.op = "start_fail" =>
             /\ recordingStore'.status = "error"
             /\ recordingStore'.sessionId = NoSession
             /\ recordingStore'.error.code # Undefined
             /\ recordingStore'.error.message # Undefined
             /\ ~IsBlank(recordingStore'.error.message)]_vars

\* C17 witness: a second session was started after the first one had been cleared
C17_Witness ==
    /\ recordingLast.op = "start_ok"
    /\ recordingStore.sessionId = 2
    /\ 1 \in cleared
    /\ recordingStore.error = NoError

\* C18: when a pause, resume or stop command that was sent fails, the controller
\* ends with status error, sessionId null and a recorded error, whatever the state
\* was when the failure arrived, and no command is sent again.
C18_CommandFailure ==
    [][recordingLast'.op \in {"pause_fail", "resume_fail", "stop_fail"} =>
          /\ recordingStore'.status = "error"
          /\ recordingStore'.sessionId = NoSession
          /\ recordingStore'.error.code # Undefined
          /\ ~IsBlank(recordingStore'.error.message)
          /\ recordingIssued' = recordingIssued
          /\ BagCardinality(recordingCalls') = BagCardinality(recordingCalls) - 1]_vars

\* C18 witness: a pause command failed after a notification with status paused and
\* durationMs 5000 had been applied
C18_Witness ==
    /\ recordingLast.op = "pause_fail"
    /\ recordingStore.status = "error"
    /\ recordingStore.sessionId = NoSession
    /\ recordingStore.durationMs = 5000
    /\ recordingStore.error.code = "PAUSE_RECORDING_FAIL"

\* what a notification wrote and a command reply leaves alone
NotifiedKept ==
    /\ recordingStore'.durationMs = recordingStore.durationMs
    /\ recordingStore'.sourceLabel = recordingStore.sourceLabel
    /\ recordingStore'.degradeMessage = recordingStore.degradeMessage

\* C19: the success reply of pause sets status paused, that of resume sets status
\* recording, that of stop sets status stopped, clears sessionId and sets projectId
\* to the returned identity; what a notification wrote before (durationMs, source
\* label, degrade message) stays in the state, only the status is replaced.
C19_CommandSuccess ==
    [][/\ recordingLast'.op = "pause_ok" =>
             /\ recordingStore'.status = "paused"
             /\ recordingStore'.sessionId = recordingStore.sessionId
             /\ NotifiedKept
       /\ recordingLast'.op = "resume_ok" =>
             /\ recordingStore'.status = "recording"
             /\ recordingStore'.sessionId = recordingStore.sessionId
             /\ NotifiedKept
       /\ recordingLast'.op = "stop_ok" =>
             /\ recordingStore'.status = "stopped"
             /\ recordingStore'.sessionId = NoSession
             /\ recordingStore'.projectId = recordingLast'.session
             /\ recordingStore'.projectId # NoRecording
             /\ NotifiedKept]_vars

\* C19 witness: a notification with status recording and durationMs 5000 was applied
\* during session 1, then the stop command returned the project
C19_Witness ==
    /\ recordingLast = RecordingEvent("stop_ok", 1, Undefined)
    /\ recordingStore.status = "stopped"
    /\ recordingStore.sessionId = NoSession
    /\ recordingStore.projectId = 1
    /\ recordingStore.durationMs = 5000
    /\ recordingStore.sourceLabel = "event source"

\* C20: a notification sets status, durationMs, sourceLabel, detail and
\* degradeMessage to its values, sets sessionId to null when its status is stopped
\* or error and to its session identity otherwise, and leaves projectId and the
\* recorded error unchanged.
C20_SyncFrame ==
    [][recordingLast'.op = "sync" =>
          /\ \E n \in StatusPayloads :
                /\ n.status = recordingLast'.status
                /\ recordingStore'.status = n.status
                /\ recordingStore'.durationMs = n.durationMs
                /\ recordingStore'.sourceLabel = n.sourceLabel
                /\ recordingStore'.detail = n.detail
                /\ recordingStore'.degradeMessage = n.degradeMessage
          /\ recordingStore'.sessionId =
                IF recordingLast'.status \in {"stopped", "error"}
                THEN NoSession ELSE recordingLast'.session
          /\ recordingStore'.projectId = recordingStore.projectId
          /\ recordingStore'.error = recordingStore.error]_vars

\* C20 witness: a notification with a degrade message was applied while the state
\* held the project of a stopped session and a recorded error
C20_Witness ==
    /\ recordingLast.op = "sync"
    /\ recordingStore.status = "recording"
    /\ recordingStore.durationMs = 1000
    /\ recordingStore.degradeMessage = "audio degraded"
    /\ recordingStore.sessionId = recordingLast.session
    /\ recordingStore.projectId # NoRecording
    /\ recordingStore.error.code = "SESSION_NOT_FOUND"

\* C23 as stated: while a session is active (from its successful start until
\* sessionId is cleared) the durationMs held never decreases, whatever notifications
\* and command replies are applied.
C23_DurationMonotonic ==
    [][(/\ recordingStore.sessionId # NoSession
        /\ recordingStore'.sessionId = recordingStore.sessionId
        /\ recordingLast'.op # "start_ok") =>
          recordingStore'.durationMs >= recordingStore.durationMs]_vars

\* C24 as stated: in every reachable state projectId is non-null only when no
\* session is active (sessionId null and status neither recording nor paused).
C24_ProjectOnlyWhenInactive ==
    recordingStore.projectId # NoRecording =>
        /\ recordingStore.sessionId = NoSession
        /\ recordingStore.status \notin ActiveStatus

Init ==
    ExportInit /\ ProjectInit /\ RecordingInit /\ PageInit /\ UtilInit /\ EventInit

SpecExport == Init /\ [][ExportNext]_vars

\* the poll loops with timers that fire and status fetches that reply or fail
SpecPollFair ==
    Init /\ [][PollNext]_vars /\ \A k \in 1..MaxPollStarts : WF_vars(PollSteps(k))

SpecLoads == Init /\ [][LoadsNext]_vars

SpecProject == Init /\ [][ProjectNext]_vars

\* the write queue with a backend that replies to every write command
SpecQueueFair == Init /\ [][QueueNext]_vars /\ WF_vars(WriteReplies)

SpecRecording == Init /\ [][RecordingNext]_vars

SpecSubmit == Init /\ [][SubmitNext]_vars

SpecNormalize == Init /\ [][NormalizeNext]_vars

SpecEvents == Init /\ [][EventNext]_vars

====
